---- MODULE Spec2Model ----
(***************************************************************************)
(* Model of acmi-rescue (src/src/main.rs): run() parses the ZIP local file *)
(* header at the front of the mapped input, hands every remaining byte to  *)
(* a raw-deflate decoder, reads the decoded bytes line by line through a   *)
(* BufReader, writes each line plus a newline into one entry of a new ZIP  *)
(* archive and finishes the archive.                                       *)
(*                                                                         *)
(* Library behaviour the source relies on is modelled by what it does:     *)
(*  - std BufRead::read_until / read_line / lines(): a line ends at a      *)
(*    newline OR at end of stream; "\n" and then "\r" are stripped; the    *)
(*    bytes of a line must be UTF-8, else ErrorKind::InvalidData.          *)
(*  - flate2 DeflateDecoder: the compressed stream is abstracted to a      *)
(*    sequence of units. A literal unit decodes to one byte, EndOfStream   *)
(*    is the final-block end marker, Corrupt is a code the inflater        *)
(*    rejects ("corrupt deflate stream", ErrorKind::InvalidInput, which    *)
(*    loses the bytes decoded earlier in the same read call). What the     *)
(*    decoder reports when its input runs out before the end marker is a   *)
(*    property of the build and is left open (onExhausted).                *)
(*  - output I/O (File::create, start_file, writeln!, finish) succeeds.    *)
(***************************************************************************)
EXTENDS Integers, Sequences, FiniteSets, TLC

\* ---- bounds of the model ----
MaxPayload == 3     \* compressed units after the header
MaxChunk   == 2     \* bytes one decoder read call can deliver
MaxPath    == 2     \* bytes of file name in the header
MaxExtra   == 1     \* bytes of extra field in the header

\* ---- byte values ----
NL       == 10      \* b'\n', the delimiter of lines()
CR       == 13      \* b'\r', stripped by lines() in front of a newline
LetterA  == 97
Utf8Lead == 195     \* 0xC3, first byte of a two-byte UTF-8 sequence
Utf8Cont == 169     \* 0xA9, a UTF-8 continuation byte
EndOfStream == 1    \* compressed unit: end of the final deflate block
Corrupt     == 2    \* compressed unit: an invalid deflate code

Literals == {LetterA, NL, CR, Utf8Lead, Utf8Cont}
Units    == Literals \cup {EndOfStream, Corrupt}

LOCAL_FILE_HEADER_MAGIC == <<80, 75, 3, 4>>

VARIABLES
  onExhausted, \* what the decoder reports when input ends before EndOfStream
  chunk,       \* capacity of one decoder read call
  input,       \* the memory-mapped file
  acmi,        \* the byte cursor: a shrinking view of input
  fields,      \* the ten scalar header fields read so far
  header,      \* the assembled LocalFileHeader
  pc,          \* position in run()
  decPos,      \* units the decoder has consumed
  decDone,     \* decoder saw EndOfStream
  rbuf,        \* BufReader: decoded bytes not yet consumed
  line,        \* read_line: bytes accumulated for the current line
  item,        \* what lines().next() returned
  decoded,     \* history: every byte the decoder delivered
  emitted,     \* history: every record lines() yielded as Ok
  written,     \* bytes written into the output entry
  archive,     \* "none", "open" (entry started), "closed" (finish done)
  finalized,   \* number of times zipper.finish() ran
  result,      \* "Running", "Ok", "Err", "Panic"
  errKind,     \* io::ErrorKind returned by run()
  stopCause,   \* why the salvage loop ended
  runNo,       \* 1 for the first run, 2 for the comparison run
  prev         \* outcome of the first run, kept for the comparison

vars == <<onExhausted, chunk, input, acmi, fields, header, pc, decPos, decDone,
          rbuf, line, item, decoded, emitted, written, archive, finalized,
          result, errKind, stopCause, runNo, prev>>

\* ---- slices ----
Take(s, n) == SubSeq(s, 1, n)
Skip(s, n) == SubSeq(s, n + 1, Len(s))
Front(s)   == SubSeq(s, 1, Len(s) - 1)
Last(s)    == s[Len(s)]
IsSuffix(t, s) == Len(t) <= Len(s) /\ t = Skip(s, Len(s) - Len(t))
Min(a, b)  == IF a < b THEN a ELSE b

\* ---- byte cursor ----
\* split_at panics when the slice is shorter than the integer: ok = FALSE.
read_u16(s) ==
  IF Len(s) < 2 THEN [ok |-> FALSE, val |-> 0, rest |-> s]
  ELSE [ok |-> TRUE, val |-> s[1] + 256 * s[2], rest |-> Skip(s, 2)]

read_u32(s) ==
  IF Len(s) < 4 THEN [ok |-> FALSE, val |-> 0, rest |-> s]
  ELSE [ok |-> TRUE,
        val |-> s[1] + 256 * s[2] + 65536 * s[3] + 16777216 * s[4],
        rest |-> Skip(s, 4)]

\* widths of the scalar fields, in the order parse_and_consume reads them
FieldWidths == <<2, 2, 2, 2, 2, 4, 4, 4, 2, 2>>

RECURSIVE ReadFields(_, _)
ReadFields(s, ws) ==
  IF ws = <<>> THEN [ok |-> TRUE, vals |-> <<>>, rest |-> s]
  ELSE LET r == IF Head(ws) = 2 THEN read_u16(s) ELSE read_u32(s) IN
       IF ~r.ok THEN [ok |-> FALSE, vals |-> <<>>, rest |-> s]
       ELSE LET t == ReadFields(r.rest, Tail(ws)) IN
            [ok |-> t.ok, vals |-> <<r.val>> \o t.vals, rest |-> t.rest]

\* assert_eq!(header[..4], LOCAL_FILE_HEADER_MAGIC)
MagicMatchesLoose(s) == Take(s, 3) = Take(LOCAL_FILE_HEADER_MAGIC, 3)
MagicMatches(s) == Take(s, 4) = LOCAL_FILE_HEADER_MAGIC

\* the two split_at calls on the variable-length tail
SplitVariableNoExtra(s, pl, el) ==
  IF Len(s) < pl + el
  THEN [ok |-> FALSE, path |-> <<>>, extra |-> <<>>, rest |-> s]
  ELSE [ok |-> TRUE, path |-> Take(s, pl),
        extra |-> SubSeq(s, pl + 1, pl + el), rest |-> Skip(s, pl)]
SplitVariable(s, pl, el) ==
  IF Len(s) < pl \/ Len(s) - pl < el
  THEN [ok |-> FALSE, path |-> <<>>, extra |-> <<>>, rest |-> s]
  ELSE [ok |-> TRUE, path |-> Take(s, pl),
        extra |-> SubSeq(s, pl + 1, pl + el), rest |-> Skip(s, pl + el)]

EmptyHeader ==
  [minimum_extract_version |-> 0, flags |-> 0, compression_method |-> 0,
   last_modified_time |-> 0, last_modified_date |-> 0, crc32 |-> 0,
   compressed_size |-> 0, uncompressed_size |-> 0,
   path |-> <<>>, extra_field |-> <<>>]

MakeHeader(f, p, e) ==
  [minimum_extract_version |-> f[1], flags |-> f[2],
   compression_method |-> f[3], last_modified_time |-> f[4],
   last_modified_date |-> f[5], crc32 |-> f[6], compressed_size |-> f[7],
   uncompressed_size |-> f[8], path |-> p, extra_field |-> e]

\* ---- decoder ----
\* DeflateDecoder::new(io::Cursor::new(acmi)): the decoder is given the whole
\* remaining cursor.
DecoderInputBounded(cursor, hdr) ==
  Take(cursor, Min(hdr.compressed_size, Len(cursor)))
DecoderInput(cursor, hdr) == cursor

\* One read call: decode units until cap bytes are out, the end marker is
\* met, a corrupt unit is met, or the input is exhausted.
RECURSIVE Inflate(_, _, _, _, _)
Inflate(src, pos, out, cap, exh) ==
  IF Len(out) = cap
  THEN [kind |-> "ok", bytes |-> out, pos |-> pos, done |-> FALSE]
  ELSE IF pos = Len(src)
  THEN IF out # <<>> \/ exh = "Eof"
       THEN [kind |-> "ok", bytes |-> out, pos |-> pos, done |-> FALSE]
       ELSE [kind |-> "err", bytes |-> <<>>, pos |-> pos, done |-> FALSE]
  ELSE IF src[pos + 1] = EndOfStream
  THEN [kind |-> "ok", bytes |-> out, pos |-> pos + 1, done |-> TRUE]
  ELSE IF src[pos + 1] = Corrupt
  THEN [kind |-> "err", bytes |-> <<>>, pos |-> pos, done |-> FALSE]
  ELSE Inflate(src, pos + 1, Append(out, src[pos + 1]), cap, exh)

DecoderRead(src, pos, done, cap, exh) ==
  IF done THEN [kind |-> "ok", bytes |-> <<>>, pos |-> pos, done |-> TRUE]
  ELSE Inflate(src, pos, <<>>, cap, exh)

\* ---- lines() ----
\* memchr(b'\n', available): index of the first newline, 0 when there is none
FirstNewline(s) ==
  IF \E i \in 1..Len(s) : s[i] = NL
  THEN CHOOSE i \in 1..Len(s) : s[i] = NL /\ \A j \in 1..(i - 1) : s[j] # NL
  ELSE 0

\* str::from_utf8 on the bytes of the line: a lead byte needs its
\* continuation byte, a continuation byte needs its lead byte
Utf8Valid(s) ==
  \A i \in 1..Len(s) :
    /\ s[i] = Utf8Lead => (i < Len(s) /\ s[i + 1] = Utf8Cont)
    /\ s[i] = Utf8Cont => (i > 1 /\ s[i - 1] = Utf8Lead)

\* lines(): pop a trailing "\n", then a trailing "\r"
StripNewlineOnly(s) ==
  IF s # <<>> /\ Last(s) = NL THEN Front(s) ELSE s
StripLineEnd(s) ==
  IF s # <<>> /\ Last(s) = NL
  THEN IF Front(s) # <<>> /\ Last(Front(s)) = CR
       THEN Front(Front(s)) ELSE Front(s)
  ELSE s

NoItem == [kind |-> "none", line |-> <<>>, err |-> "none"]

\* ---- the salvage loop ----
\* e.kind() != io::ErrorKind::InvalidInput  =>  bail, else break
IsBenignNever(kind) == FALSE
IsBenignAlways(kind) == TRUE
IsBenign(kind) == kind = "InvalidInput"

\* writeln!(zipper, "{line}")
WriteLnBare(l) == l
WriteLn(l) == l \o <<NL>>

\* where break leaves the loop: zipper.finish()
BreakTargetReturn == "return"
BreakTarget == "finish"


\* ---- inputs ----
BadMagic == <<80, 75, 3, 5>>
\* crc32, compressed_size, uncompressed_size as stored in the file: zeroed
\* (written before the payload was known) or declared
ZeroSizes     == <<0, 0, 0, 0, 0, 0, 0, 0, 0, 0, 0, 0>>
DeclaredSizes == <<7, 0, 0, 0, 1, 0, 0, 0, 2, 0, 0, 0>>
SizeVariants  == {ZeroSizes, DeclaredSizes}

PathBytes(p)  == [i \in 1..p |-> 111 + i]
ExtraBytes(e) == [i \in 1..e |-> 119 + i]

\* version 20, flags 8 (sizes follow the data), method 8 (deflate), time, date
MkHeader(magic, sizes, p, e) ==
  magic \o <<20, 0, 8, 0, 8, 0, 0, 0, 0, 0>> \o sizes
        \o <<p, 0>> \o <<e, 0>> \o PathBytes(p) \o ExtraBytes(e)

Payloads(n) == UNION {[1..k -> Units] : k \in 0..n}

\* one-byte-name headers in front of every payload; every header shape in
\* front of the short payloads; every proper prefix of a header
PlainInputs ==
  {MkHeader(LOCAL_FILE_HEADER_MAGIC, s, 1, 0) \o pl :
     s \in SizeVariants, pl \in Payloads(MaxPayload)}
ShapedInputs ==
  {MkHeader(m, ZeroSizes, p, e) \o pl :
     m \in {LOCAL_FILE_HEADER_MAGIC, BadMagic}, p \in 0..MaxPath,
     e \in 0..MaxExtra, pl \in Payloads(1)}
ShortInputs ==
  LET h == MkHeader(LOCAL_FILE_HEADER_MAGIC, ZeroSizes, MaxPath, MaxExtra)
  IN {Take(h, k) : k \in 0..(Len(h) - 1)}
Inputs == PlainInputs \cup ShapedInputs \cup ShortInputs

\* the same file with the other crc32 / compressed_size / uncompressed_size
WithSizes(f, sizes) == Take(f, 14) \o sizes \o Skip(f, 26)

NoPrev == [rel |-> "none", written |-> <<>>, emitted |-> <<>>,
           result |-> "Running", errKind |-> "none", finalized |-> 0]

\* ---- run(): state at entry ----
StartRun(f) ==
  /\ input' = f
  /\ acmi' = f
  /\ fields' = <<>>
  /\ header' = EmptyHeader
  /\ pc' = "parse_magic"
  /\ decPos' = 0
  /\ decDone' = FALSE
  /\ rbuf' = <<>>
  /\ line' = <<>>
  /\ item' = NoItem
  /\ decoded' = <<>>
  /\ emitted' = <<>>
  /\ written' = <<>>
  /\ archive' = "none"
  /\ finalized' = 0
  /\ result' = "Running"
  /\ errKind' = "none"
  /\ stopCause' = "none"

Init ==
  /\ onExhausted \in {"Eof", "InvalidInput"}
  /\ chunk \in 1..MaxChunk
  /\ input \in Inputs
  /\ acmi = input
  /\ fields = <<>>
  /\ header = EmptyHeader
  /\ pc = "parse_magic"
  /\ decPos = 0
  /\ decDone = FALSE
  /\ rbuf = <<>>
  /\ line = <<>>
  /\ item = NoItem
  /\ decoded = <<>>
  /\ emitted = <<>>
  /\ written = <<>>
  /\ archive = "none"
  /\ finalized = 0
  /\ result = "Running"
  /\ errKind = "none"
  /\ stopCause = "none"
  /\ runNo = 1
  /\ prev = NoPrev

build == <<onExhausted, chunk>>

\* a panic unwinds out of run(): nothing after it executes
Panic ==
  /\ result' = "Panic"
  /\ pc' = "done"

\* ---- LocalFileHeader::parse_and_consume ----
ParseMagic ==
  /\ pc = "parse_magic"
  /\ IF Len(acmi) >= 4 /\ MagicMatches(acmi)
     THEN /\ acmi' = Skip(acmi, 4)
          /\ pc' = "parse_fixed"
          /\ UNCHANGED result
     ELSE /\ Panic
          /\ UNCHANGED acmi
  /\ UNCHANGED <<build, input, fields, header, decPos, decDone, rbuf, line,
                 item, decoded, emitted, written, archive, finalized, errKind,
                 stopCause, runNo, prev>>

ParseFixed ==
  /\ pc = "parse_fixed"
  /\ LET r == ReadFields(acmi, FieldWidths) IN
     IF r.ok
     THEN /\ acmi' = r.rest
          /\ fields' = r.vals
          /\ pc' = "parse_var"
          /\ UNCHANGED result
     ELSE /\ Panic
          /\ UNCHANGED <<acmi, fields>>
  /\ UNCHANGED <<build, input, header, decPos, decDone, rbuf, line, item,
                 decoded, emitted, written, archive, finalized, errKind,
                 stopCause, runNo, prev>>

ParseVariable ==
  /\ pc = "parse_var"
  /\ LET r == SplitVariable(acmi, fields[9], fields[10]) IN
     IF r.ok
     THEN /\ acmi' = r.rest
          /\ header' = MakeHeader(fields, r.path, r.extra)
          /\ pc' = "open"
          /\ UNCHANGED result
     ELSE /\ Panic
          /\ UNCHANGED <<acmi, header>>
  /\ UNCHANGED <<build, input, fields, decPos, decDone, rbuf, line, item,
                 decoded, emitted, written, archive, finalized, errKind,
                 stopCause, runNo, prev>>

\* ---- run(): decoder, ZipWriter::new, start_file ----
OpenArchive ==
  /\ pc = "open"
  /\ archive' = "open"
  /\ pc' = "read_line"
  /\ UNCHANGED <<build, input, acmi, fields, header, decPos, decDone, rbuf,
                 line, item, decoded, emitted, written, finalized, result,
                 errKind, stopCause, runNo, prev>>

\* ---- lines().next(): read_until over the BufReader ----
\* fill_buf on an empty buffer calls the decoder
FillBuf ==
  /\ pc = "read_line"
  /\ rbuf = <<>>
  /\ LET r == DecoderRead(DecoderInput(acmi, header), decPos, decDone, chunk,
                          onExhausted) IN
     IF r.kind = "err"
     THEN /\ item' = [kind |-> "err", line |-> <<>>, err |-> "InvalidInput"]
          /\ pc' = "match"
          /\ UNCHANGED <<decPos, decDone, rbuf, decoded>>
     ELSE /\ decPos' = r.pos
          /\ decDone' = r.done
          /\ rbuf' = r.bytes
          /\ decoded' = decoded \o r.bytes
          /\ pc' = IF r.bytes = <<>> THEN "yield" ELSE "read_line"
          /\ UNCHANGED item
  /\ UNCHANGED <<build, input, acmi, fields, header, line, emitted, written,
                 archive, finalized, result, errKind, stopCause, runNo, prev>>

\* memchr for the newline in what is buffered, extend the line, consume
ScanBuf ==
  /\ pc = "read_line"
  /\ rbuf # <<>>
  /\ LET i == FirstNewline(rbuf) IN
     IF i > 0
     THEN /\ line' = line \o Take(rbuf, i)
          /\ rbuf' = Skip(rbuf, i)
          /\ pc' = "yield"
     ELSE /\ line' = line \o rbuf
          /\ rbuf' = <<>>
          /\ pc' = "read_line"
  /\ UNCHANGED <<build, input, acmi, fields, header, decPos, decDone, item,
                 decoded, emitted, written, archive, finalized, result,
                 errKind, stopCause, runNo, prev>>

\* read_line validates UTF-8; lines() maps Ok(0) to None and strips the end
Yield ==
  /\ pc = "yield"
  /\ IF ~Utf8Valid(line)
     THEN /\ item' = [kind |-> "err", line |-> <<>>, err |-> "InvalidData"]
          /\ UNCHANGED emitted
     ELSE IF line = <<>>
     THEN /\ item' = NoItem
          /\ UNCHANGED emitted
     ELSE /\ item' = [kind |-> "ok", line |-> StripLineEnd(line),
                      err |-> "none"]
          /\ emitted' = Append(emitted, StripLineEnd(line))
  /\ pc' = "match"
  /\ UNCHANGED <<build, input, acmi, fields, header, decPos, decDone, rbuf,
                 line, decoded, written, archive, finalized, result, errKind,
                 stopCause, runNo, prev>>

\* ---- the body of the for loop ----
WriteLine ==
  /\ pc = "match"
  /\ item.kind = "ok"
  /\ written' = written \o WriteLn(item.line)
  /\ line' = <<>>
  /\ item' = NoItem
  /\ pc' = "read_line"
  /\ UNCHANGED <<build, input, acmi, fields, header, decPos, decDone, rbuf,
                 decoded, emitted, archive, finalized, result, errKind,
                 stopCause, runNo, prev>>

\* the iterator is exhausted: the loop ends
EndOfLines ==
  /\ pc = "match"
  /\ item.kind = "none"
  /\ stopCause' = "Eof"
  /\ pc' = "finish"
  /\ UNCHANGED <<build, input, acmi, fields, header, decPos, decDone, rbuf,
                 line, item, decoded, emitted, written, archive, finalized,
                 result, errKind, runNo, prev>>

BreakOnInvalidInput ==
  /\ pc = "match"
  /\ item.kind = "err"
  /\ IsBenign(item.err)
  /\ stopCause' = "InvalidInput"
  /\ pc' = BreakTarget
  /\ UNCHANGED <<build, input, acmi, fields, header, decPos, decDone, rbuf,
                 line, item, decoded, emitted, written, archive, finalized,
                 result, errKind, runNo, prev>>

Bail ==
  /\ pc = "match"
  /\ item.kind = "err"
  /\ ~IsBenign(item.err)
  /\ stopCause' = "Fatal"
  /\ result' = "Err"
  /\ errKind' = item.err
  /\ pc' = "done"
  /\ UNCHANGED <<build, input, acmi, fields, header, decPos, decDone, rbuf,
                 line, item, decoded, emitted, written, archive, finalized,
                 runNo, prev>>

\* zipper.finish()
Finish ==
  /\ pc = "finish"
  /\ archive' = "closed"
  /\ finalized' = finalized + 1
  /\ pc' = "return"
  /\ UNCHANGED <<build, input, acmi, fields, header, decPos, decDone, rbuf,
                 line, item, decoded, emitted, written, result, errKind,
                 stopCause, runNo, prev>>

\* Ok(())
Return ==
  /\ pc = "return"
  /\ result' = "Ok"
  /\ pc' = "done"
  /\ UNCHANGED <<build, input, acmi, fields, header, decPos, decDone, rbuf,
                 line, item, decoded, emitted, written, archive, finalized,
                 errKind, stopCause, runNo, prev>>

\* ---- a second run of the program, for comparison with the first ----
Outcome(rel) ==
  [rel |-> rel, written |-> written, emitted |-> emitted, result |-> result,
   errKind |-> errKind, finalized |-> finalized]

\* the file the first run saw was this one truncated one byte earlier; a
\* drop in records between two cuts shows between two adjacent cuts
RunLonger ==
  /\ pc = "done"
  /\ runNo = 1
  /\ archive # "none"
  /\ Len(acmi) < MaxPayload
  /\ \E u \in Units : StartRun(Append(input, u))
  /\ prev' = Outcome("truncation")
  /\ runNo' = 2
  /\ UNCHANGED build

\* the same file with other crc32, compressed_size, uncompressed_size
RunResized ==
  /\ pc = "done"
  /\ runNo = 1
  /\ Len(input) >= 26
  /\ \E s \in SizeVariants :
       /\ s # SubSeq(input, 15, 26)
       /\ StartRun(WithSizes(input, s))
  /\ prev' = Outcome("sizes")
  /\ runNo' = 2
  /\ UNCHANGED build

Next ==
  \/ ParseMagic
  \/ ParseFixed
  \/ ParseVariable
  \/ OpenArchive
  \/ FillBuf
  \/ ScanBuf
  \/ Yield
  \/ WriteLine
  \/ EndOfLines
  \/ BreakOnInvalidInput
  \/ Bail
  \/ Finish
  \/ Return
  \/ RunLonger
  \/ RunResized

Spec == Init /\ [][Next]_vars


\* ======================= properties =======================

RECURSIVE Flatten(_)
\* each record followed by one newline, in order
Flatten(recs) ==
  IF recs = <<>> THEN <<>> ELSE Head(recs) \o <<NL>> \o Flatten(Tail(recs))

NumNewlines(s) == Cardinality({i \in 1..Len(s) : s[i] = NL})

SameRun == runNo' = runNo

BenignAtMatch == pc = "match" /\ item.kind = "err" /\ item.err = "InvalidInput"
FatalAtMatch  == pc = "match" /\ item.kind = "err" /\ item.err # "InvalidInput"

\* C1: when the decoder reports InvalidInput while the loop is reading a
\* record, the loop goes straight to finish() without writing, nothing is
\* written afterwards (the partial record is dropped, what was written
\* stays), and run() returns Ok.
C1_BenignStop ==
  /\ [][BenignAtMatch =>
          /\ pc' = "finish"
          /\ stopCause' = "InvalidInput"
          /\ written' = written]_vars
  /\ [][(stopCause = "InvalidInput" /\ SameRun) => written' = written]_vars
  /\ [](stopCause = "InvalidInput" =>
          /\ result \in {"Running", "Ok"}
          /\ pc = "done" => result = "Ok")

C1_Witness ==
  /\ pc = "done"
  /\ stopCause = "InvalidInput"
  /\ result = "Ok"
  /\ line # <<>>
  /\ written # <<>>

\* C2: a run that returns Ok has finished the archive exactly once, and no
\* record is written once the archive is finished; this covers the stop on
\* end of stream and the stop on InvalidInput.
C2_FinalizedOnce ==
  /\ [](pc = "done" /\ result = "Ok" => finalized = 1 /\ archive = "closed")
  /\ [](finalized <= 1)
  /\ [][(archive = "closed" /\ SameRun) => written' = written]_vars

C2_Witness ==
  /\ pc = "done"
  /\ result = "Ok"
  /\ finalized = 1
  /\ stopCause = "InvalidInput"
  /\ emitted # <<>>

\* C3: every record yielded was ended by a newline in the decoded bytes, so
\* there are never more records than decoded newlines.
C3_OnlyTerminatedLines == Len(emitted) <= NumNewlines(decoded)

\* C4: an input whose first four bytes are not the signature makes the parse
\* panic with the cursor still at offset 0, and no archive is created,
\* written or finished.
SignatureOk(f) == Len(f) >= 4 /\ Take(f, 4) = LOCAL_FILE_HEADER_MAGIC

C4_BadMagicAborts ==
  (~SignatureOk(input) /\ pc # "parse_magic") =>
     /\ result = "Panic"
     /\ pc = "done"
     /\ acmi = input
     /\ decPos = 0
     /\ archive = "none"
     /\ finalized = 0
     /\ written = <<>>

C4_Witness ==
  /\ result = "Panic"
  /\ Len(input) > 30
  /\ Take(input, 4) = BadMagic

\* C5: for an input that starts with the signature and holds the whole
\* header, the parse leaves the cursor at offset 30 + path_length +
\* extra_field_length, path and extra_field are the bytes in front of it,
\* and every step of the parse leaves a suffix of the cursor it found.
PathLength(f)  == f[27] + 256 * f[28]
ExtraLength(f) == f[29] + 256 * f[30]
HeaderEnd(f)   == 30 + PathLength(f) + ExtraLength(f)
WholeHeader(f) == SignatureOk(f) /\ Len(f) >= 30 /\ Len(f) >= HeaderEnd(f)
Parsing == pc \in {"parse_magic", "parse_fixed", "parse_var"}

C5_CursorAtPayload ==
  /\ []((WholeHeader(input) /\ ~Parsing) =>
          /\ result # "Panic"
          /\ acmi = Skip(input, HeaderEnd(input))
          /\ header.path = SubSeq(input, 31, 30 + PathLength(input))
          /\ header.extra_field =
               SubSeq(input, 31 + PathLength(input), HeaderEnd(input)))
  /\ [][SameRun => IsSuffix(acmi', acmi)]_vars

C5_Witness ==
  /\ pc = "open"
  /\ Len(header.path) = 2
  /\ Len(header.extra_field) = 1
  /\ acmi # <<>>

\* ---- whole-stream reference for C6 ----
\* a complete stream: an end marker with only literal units in front of it
HasEnd(src) == \E i \in 1..Len(src) : src[i] = EndOfStream
FirstEnd(src) ==
  CHOOSE i \in 1..Len(src) :
    src[i] = EndOfStream /\ \A j \in 1..(i - 1) : src[j] # EndOfStream
CompleteStream(src) ==
  HasEnd(src) /\ \A j \in 1..(FirstEnd(src) - 1) : src[j] \in Literals
WholeInflate(src) == Take(src, FirstEnd(src) - 1)

RECURSIVE SplitExact(_)
\* cut at every newline, bytes kept as they are, last fragment kept
SplitExact(b) ==
  IF b = <<>> THEN <<>>
  ELSE IF FirstNewline(b) = 0 THEN <<b>>
  ELSE <<Take(b, FirstNewline(b) - 1)>> \o SplitExact(Skip(b, FirstNewline(b)))

RECURSIVE SplitCrLf(_)
\* the same, with a carriage return in front of the newline removed
SplitCrLf(b) ==
  IF b = <<>> THEN <<>>
  ELSE IF FirstNewline(b) = 0 THEN <<b>>
  ELSE LET l == Take(b, FirstNewline(b) - 1) IN
       <<IF l # <<>> /\ Last(l) = CR THEN Front(l) ELSE l>>
         \o SplitCrLf(Skip(b, FirstNewline(b)))

ValidRunDone == pc = "done" /\ archive # "none" /\ CompleteStream(acmi)

C7_Monotone ==
  (runNo = 2 /\ prev.rel = "truncation" /\ pc = "done") =>
     Len(prev.emitted) <= Len(emitted)

\* C8: the decoder reads every byte from the end of the header to the end
\* of the file, and two inputs that differ only in crc32, compressed_size
\* and uncompressed_size give the same written records and the same outcome.
C8_SizesIgnored ==
  (runNo = 2 /\ prev.rel = "sizes" /\ pc = "done") =>
     /\ archive # "none" =>
          DecoderInput(acmi, header) = Skip(input, HeaderEnd(input))
     /\ written = prev.written
     /\ emitted = prev.emitted
     /\ result = prev.result
     /\ errKind = prev.errKind
     /\ finalized = prev.finalized

C8_Witness ==
  /\ runNo = 2
  /\ prev.rel = "sizes"
  /\ pc = "done"
  /\ header.compressed_size = 1
  /\ Len(acmi) > 1
  /\ written # <<>>

\* C9: an error of any other kind met while reading a record ends run() at
\* once with that error: nothing more is written and finish() is not called.
C9_OtherErrorsFatal ==
  /\ [][FatalAtMatch =>
          /\ pc' = "done"
          /\ result' = "Err"
          /\ errKind' = item.err
          /\ written' = written
          /\ finalized' = finalized]_vars
  /\ [][(result = "Err" /\ SameRun) => written' = written]_vars
  /\ [](result = "Err" => finalized = 0 /\ archive # "closed")

C9_Witness ==
  /\ result = "Err"
  /\ errKind = "InvalidData"
  /\ written # <<>>
  /\ finalized = 0

\* C10: throughout the loop the entry holds each record emitted so far
\* followed by one newline, in order of emission (the record just yielded
\* is the one still to be written).
C10_WrittenIsEmitted ==
  written = Flatten(IF pc = "match" /\ item.kind = "ok"
                    THEN Front(emitted) ELSE emitted)

C10_Witness ==
  /\ pc = "read_line"
  /\ Len(emitted) = 2
  /\ emitted[1] # emitted[2]
  /\ written = Flatten(emitted)

====
